---- MODULE Spec2Model ----
(***************************************************************************)
(* State-machine model of main.py: the RSS ingestion (fetch_news), the     *)
(* article body extraction (scrape_article_body), the digest               *)
(* (summarize_news) and the delivery pipeline (main).                      *)
(*                                                                         *)
(* Text is modelled as a sequence of one-character strings, so that        *)
(* len(), slicing, concatenation and "\n".join() are computed as Python    *)
(* computes them.  Time is counted in whole hours.                         *)
(***************************************************************************)
EXTENDS Integers, Sequences, FiniteSets, TLC

VARIABLES
    \* ---- fetch_news ----
    now,          \* datetime.now(timezone.utc), in hours
    fi,           \* 1-based position of the outer loop in RSS_FEEDS
    feeds,        \* what feedparser.parse returned for the URLs visited so far
    news_list,    \* the pre-deduplication list
    unique_news,  \* the list fetch_news returns
    ei,           \* entries of the current feed the inner loop has visited
    fpc,          \* "idle" | "scan" | "returned" | "raised"
    \* ---- scrape_article_body ----
    response,     \* the outcome of requests.get and of the parsing
    soup,         \* the parsed page after the non-content tags were removed
    body_text,    \* the local body_text
    matched,      \* the selector whose element was taken, "" when none
    fell_back,    \* whether the page-wide paragraph fallback ran
    extracted,    \* body_text as it stood before the truncation
    sresult,      \* the returned text
    spc,          \* "idle" | "get" | "select" | "fallback" | "limit" | "returned"
    \* ---- main ----
    env,          \* which environment variables are set
    news,         \* the local news of main
    summary,      \* the digest
    genai_calls,  \* the prompts sent to the generative-text service
    line_calls,   \* the texts passed to send_line_message
    pushed,       \* the texts the push API accepted
    doc_calls,    \* the arguments passed to append_to_google_doc
    doc,          \* the sections inserted at the end of the document
    aborted_in,   \* the stage whose exception left main, "" when none
    pc            \* "idle" | "fetch" | "scrape" | "summarize" | "send" | "append"
                  \* | "done" | "aborted"

fetchVars == <<now, fi, feeds, news_list, unique_news, ei, fpc>>
scrapeVars == <<response, soup, body_text, matched, fell_back, extracted, sresult, spc>>

mainVars == <<env, news, summary, genai_calls, line_calls, pushed, doc_calls, doc,
              aborted_in, pc>>

vars == <<fetchVars, scrapeVars, mainVars>>

(***************************************************************************)
(* Bounds of the model                                                     *)
(***************************************************************************)
\* total number of feed entries served to one run of fetch_news
MaxTotalEntries == 3
\* how far beyond a length limit the generated texts go
MaxOver == 1

(***************************************************************************)
(* Configuration (main.py:25-39)                                           *)
(***************************************************************************)
RSS_FEEDS == <<"itmedia", "ledge", "ainow", "googlenews">>

\* timedelta(days=1), in hours
ONE_DAY == 24

\* values of the clock at the start of a run
NowValues == {48, 49}

\* an attribute the feed did not supply
Missing == "<missing>"

(***************************************************************************)
(* Text                                                                    *)
(***************************************************************************)
Alphabet == <<"a", "b", "c", "d", "e", "f", "g">>

\* a text of n characters whose characters vary with the position
Text(n, off) == [i \in 1..n |-> Alphabet[((i + off) % Len(Alphabet)) + 1]]

Whitespace == {" ", "\n"}

\* str.strip()
RECURSIVE LStrip(_)
LStrip(t) == IF t # <<>> /\ t[1] \in Whitespace THEN LStrip(Tail(t)) ELSE t

RECURSIVE RStrip(_)
RStrip(t) ==
    IF t # <<>> /\ t[Len(t)] \in Whitespace THEN RStrip(SubSeq(t, 1, Len(t) - 1)) ELSE t

Strip(t) == RStrip(LStrip(t))

\* t[:n]
Prefix(t, n) == SubSeq(t, 1, IF Len(t) < n THEN Len(t) ELSE n)

\* "\n".join(parts)
RECURSIVE JoinLines(_)
JoinLines(parts) ==
    IF parts = <<>> THEN <<>>
    ELSE IF Len(parts) = 1 THEN parts[1]
    ELSE parts[1] \o <<"\n">> \o JoinLines(Tail(parts))

\* [f(x) for x in xs]
RECURSIVE StripAll(_)
StripAll(ts) == IF ts = <<>> THEN <<>> ELSE <<Strip(ts[1])>> \o StripAll(Tail(ts))

NonEmpty(t) == t # <<>>

(***************************************************************************)
(* scrape_article_body                                                     *)
(***************************************************************************)
SELECTORS == <<"article", ".article-body", ".article_body", "#article-body",
               ".entry-content", ".post-content", ".content-main", "main">>

STRIPPED_TAGS == {"script", "style", "nav", "header", "footer", "aside", "form", "iframe"}

\* len(body_text) > 2000
BODY_LIMIT == 2000

\* len(p.get_text(strip=True)) > 20
MIN_PARAGRAPH == 20

\* "...(以下省略)": each character outside ASCII is written as its code point
OMIT_MARKER == <<".", ".", ".", "(", "u4ee5", "u4e0b", "u7701", "u7565", ")">>

\* "(本文の取得に失敗しました)", 14 characters
NO_BODY_TEXT == <<"(", "u672c", "u6587", "u306e", "u53d6", "u5f97", "u306b", "u5931", "u6557",
                  "u3057", "u307e", "u3057", "u305f", ")">>

\* "(本文の取得中にエラーが発生: ", 16 characters
ERROR_PREFIX == <<"(", "u672c", "u6587", "u306e", "u53d6", "u5f97", "u4e2d", "u306b", "u30a8",
                  "u30e9", "u30fc", "u304c", "u767a", "u751f", ":", " ">>

\* f"(本文の取得中にエラーが発生: {str(e)})"
ErrorText(msg) == ERROR_PREFIX \o msg \o <<")">>

\* soup.select_one found nothing
NoElement == [found |-> FALSE, subs |-> <<>>, strings |-> <<>>]

\* A container element: subs are the raw texts of its p/h2/h3/li
\* descendants, strings the raw text nodes of the element.
Element(subs, strings) == [found |-> TRUE, subs |-> subs, strings |-> strings]

ElementChoices ==
    { Element(<<>>, <<>>),
      Element(<<>>, <<<<" ">> \o Text(6, 0), <<"\n", " ">>, Text(4, 2) \o <<" ">>>>),
      Element(<<<<>>, <<" ", "\n">>>>, <<<<" ", "\n">>>>),
      Element(<<Text(5, 1), <<" ">>, <<" ">> \o Text(21, 2) \o <<"\n">>>>, <<>>),
      Element(<<Text(BODY_LIMIT, 0)>>, <<>>) }
      \cup { Element(<<Text(BODY_LIMIT - 1, 3), Text(d, 0)>>, <<>>) : d \in 0..MaxOver }

\* elements that may sit later in the page than the first match
LaterElementChoices ==
    { Element(<<Text(30, 4)>>, <<>>), Element(<<>>, <<>>) }

Paragraph(inside, text) == [inside |-> inside, text |-> text]

ParagraphChoices ==
    { <<>>,
      <<Paragraph("body", Text(MIN_PARAGRAPH - 1, 0))>>,
      <<Paragraph("body", <<" ">> \o Text(MIN_PARAGRAPH, 0) \o <<" ">>)>>,
      <<Paragraph("body", Text(MIN_PARAGRAPH + 1, 0))>>,
      <<Paragraph("nav", Text(30, 1)), Paragraph("body", Text(5, 2)),
        Paragraph("body", Text(25, 3)), Paragraph("body", Text(21, 4))>>,
      <<Paragraph("body", Text(BODY_LIMIT, 5))>> }
      \cup { <<Paragraph("body", Text(BODY_LIMIT + d, 6))>> : d \in 1..MaxOver }

SelectorIndex == 1..Len(SELECTORS)

ElementMaps ==
    { [s \in SelectorIndex |-> NoElement] }
      \cup { [s \in SelectorIndex |-> IF s = i THEN e ELSE NoElement] :
                 i \in SelectorIndex, e \in ElementChoices }
      \cup { [s \in SelectorIndex |-> IF s = i THEN e ELSE IF s = j THEN l ELSE NoElement] :
                 i \in SelectorIndex, j \in SelectorIndex \ {1}, e \in ElementChoices,
                 l \in LaterElementChoices }

\* the pages a URL may serve: for every selector the element select_one
\* finds, and the <p> elements of the whole page
Pages == { [elems |-> m, paras |-> ps] : m \in ElementMaps, ps \in ParagraphChoices }

STATUS_CODES == {200, 404}

ErrorMessages == { <<>>, Text(7, 0), Text(BODY_LIMIT, 1) }

\* requests.get raising, the parsing raising, or a response with a page
HttpOutcomes ==
    { [kind |-> k, status |-> 0, msg |-> m, page |-> [elems |-> <<>>, paras |-> <<>>]] :
          k \in {"request_error"}, m \in ErrorMessages }
      \cup { [kind |-> "parse_error", status |-> st, msg |-> Text(7, 0),
              page |-> [elems |-> <<>>, paras |-> <<>>]] : st \in STATUS_CODES }
      \cup { [kind |-> "page", status |-> st, msg |-> <<>>, page |-> p] :
                 st \in STATUS_CODES, p \in Pages }

\* for tag in soup.find_all([...]): tag.decompose()
RECURSIVE KeepContent(_)
KeepContent(ps) ==
    IF ps = <<>> THEN <<>>
    ELSE IF ps[1].inside \in STRIPPED_TAGS THEN KeepContent(Tail(ps))
    ELSE <<ps[1]>> \o KeepContent(Tail(ps))

Decompose(page) == [elems |-> page.elems, paras |-> KeepContent(page.paras)]

\* the text taken from a matched element (main.py:99-103)
ElementText(element) ==
    IF element.subs # <<>>
    THEN JoinLines(SelectSeq(StripAll(element.subs), NonEmpty))
    ELSE JoinLines(SelectSeq(StripAll(element.strings), NonEmpty))

\* the selector loop (main.py:94-104): the selector taken and the text
RECURSIVE SelectFrom(_, _)
SelectFrom(page, k) ==
    IF k > Len(SELECTORS) THEN [matched |-> "", text |-> <<>>]
    ELSE IF page.elems[k].found
         THEN [matched |-> SELECTORS[k], text |-> ElementText(page.elems[k])]
         ELSE SelectFrom(page, k + 1)

\* the selector loop without its break: the last matching selector wins
RECURSIVE SelectLastFrom(_, _, _)
SelectLastFrom(page, k, acc) ==
    IF k > Len(SELECTORS) THEN acc
    ELSE IF page.elems[k].found
         THEN SelectLastFrom(page, k + 1,
                  [matched |-> SELECTORS[k], text |-> ElementText(page.elems[k])])
         ELSE SelectLastFrom(page, k + 1, acc)

SelectBodyLastWins(page) == SelectLastFrom(page, 1, [matched |-> "", text |-> <<>>])

SelectBody(page) == SelectFrom(page, 1)

LongEnough(t) == Len(t) > MIN_PARAGRAPH

RECURSIVE ParagraphTexts(_)
ParagraphTexts(ps) ==
    IF ps = <<>> THEN <<>> ELSE <<Strip(ps[1].text)>> \o ParagraphTexts(Tail(ps))

\* the page-wide paragraph fallback (main.py:108-109)
FallbackText(page) == JoinLines(SelectSeq(ParagraphTexts(page.paras), LongEnough))

\* the truncation with the limit compared by >=
TruncateFromLimit(text) ==
    IF Len(text) >= BODY_LIMIT THEN Prefix(text, BODY_LIMIT) \o OMIT_MARKER ELSE text

\* main.py:112-113
Truncate(text) ==
    IF Len(text) > BODY_LIMIT THEN Prefix(text, BODY_LIMIT) \o OMIT_MARKER ELSE text

\* the return without the replacement of an empty text
OrNoBodyAsIs(text) == text

\* main.py:115
OrNoBody(text) == IF text # <<>> THEN text ELSE NO_BODY_TEXT

\* requests.get, BeautifulSoup and the removal of the non-content tags
\* (main.py:73-80); any exception is turned into the error text (117-118)
ScrapeGet ==
    /\ spc = "get"
    /\ \E o \in HttpOutcomes :
          /\ response' = o
          /\ IF o.kind = "page"
             THEN /\ soup' = Decompose(o.page)
                  /\ spc' = "select"
                  /\ sresult' = sresult
             ELSE /\ soup' = soup
                  /\ spc' = "returned"
                  /\ sresult' = ErrorText(o.msg)
    /\ UNCHANGED <<body_text, matched, fell_back, extracted>>
    /\ UNCHANGED <<fetchVars, mainVars>>

\* main.py:94-104
ScrapeSelect ==
    /\ spc = "select"
    /\ LET r == SelectBody(soup)
       IN  /\ matched' = r.matched
           /\ body_text' = r.text
    /\ spc' = "fallback"
    /\ UNCHANGED <<response, soup, fell_back, extracted, sresult>>
    /\ UNCHANGED <<fetchVars, mainVars>>

\* main.py:106-109
ScrapeFallback ==
    /\ spc = "fallback"
    /\ IF body_text = <<>>
       THEN body_text' = FallbackText(soup) /\ fell_back' = TRUE
       ELSE UNCHANGED <<body_text, fell_back>>
    /\ extracted' = body_text'
    /\ spc' = "limit"
    /\ UNCHANGED <<response, soup, matched, sresult>>
    /\ UNCHANGED <<fetchVars, mainVars>>

\* main.py:111-115
ScrapeReturn ==
    /\ spc = "limit"
    /\ body_text' = Truncate(body_text)
    /\ sresult' = OrNoBody(body_text')
    /\ spc' = "returned"
    /\ UNCHANGED <<response, soup, matched, fell_back, extracted>>
    /\ UNCHANGED <<fetchVars, mainVars>>

\* scrape_article_body as a function of what the request produced
ScrapeArticleBody(o) ==
    IF o.kind # "page" THEN ErrorText(o.msg)
    ELSE LET page == Decompose(o.page)
             sel == SelectBody(page).text
             text == IF sel = <<>> THEN FallbackText(page) ELSE sel
         IN  OrNoBody(Truncate(text))


(***************************************************************************)
(* fetch_news                                                              *)
(***************************************************************************)
\* Entries a feed may serve.  published is <<>> when the entry has no
\* parseable timestamp (published_parsed is None) and <<t>> otherwise.
EntryChoices(n) ==
    LET cutoff == n - ONE_DAY
        E(p, t, l) == [published |-> p, title |-> t, link |-> l]
    IN  { E(<<>>, Missing, Missing),
          E(<<cutoff - 1>>, "A", "L1"),
          E(<<cutoff>>, "A", "L2"),
          E(<<cutoff + 1>>, "A", "L1"),
          E(<<cutoff + 1>>, "B", "L1"),
          E(<<n>>, "A", "L2"),
          E(<<cutoff + 1>>, Missing, "L1"),
          E(<<cutoff + 1>>, "A", Missing) }

RECURSIVE SeqsUpTo(_, _)
SeqsUpTo(S, k) ==
    IF k = 0 THEN {<<>>}
    ELSE LET shorter == SeqsUpTo(S, k - 1)
         IN  shorter \cup { Append(s, e) : s \in {t \in shorter : Len(t) = k - 1}, e \in S }

\* What feedparser.parse(url) may return: an unreachable or malformed feed
\* is reported as a result without entries and without a feed title.
FeedOutcomes(url, n, room) ==
    { [ok |-> FALSE, title |-> Missing, entries |-> <<>>] }
      \cup { [ok |-> TRUE, title |-> url, entries |-> es] :
                 es \in SeqsUpTo(EntryChoices(n), room) }

\* feed.feed.get("title", "Unknown Source")
FeedSource(feed) == IF feed.title = Missing THEN "Unknown Source" ELSE feed.title

\* published_dt > one_day_ago, for an entry with a timestamp
IsRecent(entry, n) == entry.published[1] > n - ONE_DAY

\* the inner loop over feed.entries (main.py:49-59): the records appended
\* and whether an attribute lookup raised AttributeError
RECURSIVE ScanEntries(_, _, _, _)
ScanEntries(feed, k, n, acc) ==
    IF k > Len(feed.entries) THEN [raised |-> FALSE, recs |-> acc, visited |-> k - 1]
    ELSE LET entry == feed.entries[k]
         IN  IF entry.published # <<>> /\ IsRecent(entry, n)
             THEN IF entry.title = Missing \/ entry.link = Missing
                  THEN [raised |-> TRUE, recs |-> acc, visited |-> k]
                  ELSE ScanEntries(feed, k + 1, n,
                           Append(acc, [title |-> entry.title,
                                        link |-> entry.link,
                                        summary |-> "",
                                        source |-> FeedSource(feed)]))
             ELSE ScanEntries(feed, k + 1, n, acc)

\* the deduplication loop (main.py:61-67)
RECURSIVE DedupFrom(_, _, _, _)
DedupFrom(list, k, seen_links, acc) ==
    IF k > Len(list) THEN acc
    ELSE IF list[k].link \notin seen_links
         THEN DedupFrom(list, k + 1, seen_links \cup {list[k].link}, Append(acc, list[k]))
         ELSE DedupFrom(list, k + 1, seen_links, acc)

\* the deduplication with the last occurrence of a link kept
RECURSIVE DedupBackFrom(_, _, _, _)
DedupBackFrom(list, k, seen_links, acc) ==
    IF k < 1 THEN acc
    ELSE IF list[k].link \notin seen_links
         THEN DedupBackFrom(list, k - 1, seen_links \cup {list[k].link}, <<list[k]>> \o acc)
         ELSE DedupBackFrom(list, k - 1, seen_links, acc)

DedupKeepLast(list) == DedupBackFrom(list, Len(list), {}, <<>>)

Dedup(list) == DedupFrom(list, 1, {}, <<>>)

RECURSIVE TotalEntries(_)
TotalEntries(fs) ==
    IF fs = <<>> THEN 0 ELSE Len(fs[1].entries) + TotalEntries(Tail(fs))

\* one iteration of "for url in RSS_FEEDS" (main.py:47-59)
FetchFeed ==
    /\ fpc = "scan"
    /\ fi <= Len(RSS_FEEDS)
    /\ \E feed \in FeedOutcomes(RSS_FEEDS[fi], now, MaxTotalEntries - TotalEntries(feeds)) :
          LET r == ScanEntries(feed, 1, now, news_list)
          IN  /\ feeds' = Append(feeds, feed)
              /\ news_list' = r.recs
              /\ ei' = r.visited
              /\ IF r.raised
                 THEN fpc' = "raised" /\ fi' = fi
                 ELSE fpc' = "scan" /\ fi' = fi + 1
    /\ UNCHANGED <<now, unique_news>>
    /\ UNCHANGED <<scrapeVars, mainVars>>

\* the deduplication and the return (main.py:61-69)
FetchDedup ==
    /\ fpc = "scan"
    /\ fi > Len(RSS_FEEDS)
    /\ unique_news' = Dedup(news_list)
    /\ fpc' = "returned"
    /\ UNCHANGED <<now, fi, feeds, news_list, ei>>
    /\ UNCHANGED <<scrapeVars, mainVars>>

(***************************************************************************)
(* summarize_news, send_line_message, append_to_google_doc, main           *)
(***************************************************************************)
ENV_NAMES == {"GEMINI_API_KEY", "LINE_CHANNEL_ACCESS_TOKEN", "LINE_USER_ID",
              "GCP_SERVICE_ACCOUNT_JSON", "GOOGLE_DOC_ID"}

\* len(line_summary) > 4900
LINE_LIMIT == 4900

ELLIPSIS == <<".", ".", ".">>

\* "本日のAI関連ニュースはありませんでした。"
NO_NEWS_TEXT == <<"u672c", "u65e5", "u306e", "A", "I", "u95a2", "u9023", "u30cb", "u30e5",
                  "u30fc", "u30b9", "u306f", "u3042", "u308a", "u307e", "u305b", "u3093",
                  "u3067", "u3057", "u305f", "u3002">>

\* "エラー: GEMINI_API_KEYが設定されていません。"
NO_KEY_TEXT == <<"u30a8", "u30e9", "u30fc", ":", " ", "G", "E", "M", "I", "N", "I", "_", "A",
                 "P", "I", "_", "K", "E", "Y", "u304c", "u8a2d", "u5b9a", "u3055", "u308c",
                 "u3066", "u3044", "u307e", "u305b", "u3093", "u3002">>

\* "要約中にエラーが発生しました: "
SUMMARY_ERROR_PREFIX == <<"u8981", "u7d04", "u4e2d", "u306b", "u30a8", "u30e9", "u30fc",
                          "u304c", "u767a", "u751f", "u3057", "u307e", "u3057", "u305f",
                          ":", " ">>

\* "(本文なし)"
NO_BODY_DEFAULT == <<"(", "u672c", "u6587", "u306a", "u3057", ")">>

\* the outer loop of fetch_news over the feeds served
RECURSIVE ScanFeeds(_, _, _, _)
ScanFeeds(fs, k, n, acc) ==
    IF k > Len(fs) THEN [raised |-> FALSE, recs |-> acc]
    ELSE LET r == ScanEntries(fs[k], 1, n, acc)
         IN  IF r.raised THEN [raised |-> TRUE, recs |-> r.recs]
             ELSE ScanFeeds(fs, k + 1, n, r.recs)

\* fetch_news as a function of what the feeds served
FetchNews(fs, n) ==
    LET r == ScanFeeds(fs, 1, n, <<>>)
    IN  [raised |-> r.raised, value |-> IF r.raised THEN <<>> ELSE Dedup(r.recs)]

FailedFeed == [ok |-> FALSE, title |-> Missing, entries |-> <<>>]

\* the feeds of a run of main: every feed is down or serves one entry
MainFeedInputs ==
    LET n == CHOOSE x \in NowValues : TRUE
        fresh == <<n>>
        E(t, l) == [published |-> fresh, title |-> t, link |-> l]
        served == { <<E("A", "L1")>>, <<E("B", "L2")>>, <<E(Missing, "L1")>> }
    IN  { [k \in 1..Len(RSS_FEEDS) |->
              IF k \in up THEN [ok |-> TRUE, title |-> RSS_FEEDS[k], entries |-> es]
              ELSE IF k = Len(RSS_FEEDS)
                   THEN [ok |-> TRUE, title |-> RSS_FEEDS[k], entries |-> <<E("A", "L2")>>]
                   ELSE FailedFeed] :
          up \in {{}, {1}, {2, 3}}, es \in served }
      \cup { [k \in 1..Len(RSS_FEEDS) |-> FailedFeed] }

\* what the article pages of a run of main answer
MainHttpOutcomes ==
    { [kind |-> "request_error", status |-> 0, msg |-> Text(7, 0),
       page |-> [elems |-> <<>>, paras |-> <<>>]],
      [kind |-> "page", status |-> 200, msg |-> <<>>,
       page |-> [elems |-> [s \in SelectorIndex |->
                               IF s = 1 THEN Element(<<Text(30, 0)>>, <<>>) ELSE NoElement],
                 paras |-> <<>>]] }

RECURSIVE LinksOf(_)
LinksOf(list) == IF list = <<>> THEN {} ELSE {list[1].link} \cup LinksOf(Tail(list))

\* fetch_article_bodies (main.py:120-126)
FetchArticleBodies(list, web) ==
    [k \in 1..Len(list) |->
        [title |-> list[k].title, link |-> list[k].link, summary |-> list[k].summary,
         source |-> list[k].source, body |-> ScrapeArticleBody(web[list[k].link])]]

\* the early returns with the key looked at first
SummarizeBranchKeyFirst(list, key_set) ==
    IF ~key_set THEN "no_key"
    ELSE IF list = <<>> THEN "no_news"
    ELSE "generate"

\* the early returns of summarize_news (main.py:130-134)
SummarizeBranch(list, key_set) ==
    IF list = <<>> THEN "no_news"
    ELSE IF ~key_set THEN "no_key"
    ELSE "generate"

\* content of the prompt (main.py:139)
PromptLines(list) ==
    [k \in 1..Len(list) |->
        [title |-> list[k].title, source |-> list[k].source, link |-> list[k].link]]

DigestTexts ==
    { Text(n, 0) : n \in {0, 5, LINE_LIMIT - 1, LINE_LIMIT} }
      \cup { Text(LINE_LIMIT + d, 0) : d \in 1..MaxOver }

\* what model.generate_content does: a text, or an exception with a message
GenerateOutcomes ==
    { [ok |-> TRUE, text |-> t] : t \in DigestTexts }
      \cup { [ok |-> FALSE, text |-> Text(9, 0)] }

\* the shaping with the limit compared by >=
LineTextFromLimit(text) ==
    IF Len(text) >= LINE_LIMIT THEN Prefix(text, LINE_LIMIT) \o ELLIPSIS ELSE text

\* main.py:239-241
LineText(text) ==
    IF Len(text) > LINE_LIMIT THEN Prefix(text, LINE_LIMIT) \o ELLIPSIS ELSE text

\* the text append_to_google_doc inserts (main.py:183-202), by section
DocSection(list, text) ==
    [summary |-> text,
     items |-> [k \in 1..Len(list) |->
                   [title |-> list[k].title, source |-> list[k].source,
                    link |-> list[k].link,
                    body |-> IF "body" \in DOMAIN list[k] THEN list[k].body
                             ELSE NO_BODY_DEFAULT]]]

\* news = fetch_news() (main.py:229); an exception of fetch_news leaves main
MainFetch ==
    /\ pc = "fetch"
    /\ \E fs \in MainFeedInputs, n \in NowValues :
          LET r == FetchNews(fs, n)
          IN  IF r.raised
              THEN /\ pc' = "aborted"
                   /\ aborted_in' = "fetch"
                   /\ news' = news
              ELSE /\ pc' = "scrape"
                   /\ aborted_in' = aborted_in
                   /\ news' = r.value
    /\ UNCHANGED <<env, summary, genai_calls, line_calls, pushed, doc_calls, doc>>
    /\ UNCHANGED <<fetchVars, scrapeVars>>

\* news = fetch_article_bodies(news) (main.py:233)
MainScrape ==
    /\ pc = "scrape"
    /\ \E web \in [LinksOf(news) -> MainHttpOutcomes] :
          news' = FetchArticleBodies(news, web)
    /\ pc' = "summarize"
    /\ UNCHANGED <<env, summary, genai_calls, line_calls, pushed, doc_calls, doc, aborted_in>>
    /\ UNCHANGED <<fetchVars, scrapeVars>>

\* summary = summarize_news(news) (main.py:236, 128-152)
MainSummarize ==
    /\ pc = "summarize"
    /\ LET branch == SummarizeBranch(news, env["GEMINI_API_KEY"])
       IN  \/ /\ branch = "no_news"
              /\ summary' = NO_NEWS_TEXT
              /\ genai_calls' = genai_calls
           \/ /\ branch = "no_key"
              /\ summary' = NO_KEY_TEXT
              /\ genai_calls' = genai_calls
           \/ /\ branch = "generate"
              /\ genai_calls' = Append(genai_calls, PromptLines(news))
              /\ \E o \in GenerateOutcomes :
                    summary' = IF o.ok THEN o.text ELSE SUMMARY_ERROR_PREFIX \o o.text
    /\ pc' = "send"
    /\ UNCHANGED <<env, news, line_calls, pushed, doc_calls, doc, aborted_in>>
    /\ UNCHANGED <<fetchVars, scrapeVars>>

\* send_line_message(line_summary) (main.py:239-242, 154-166): only
\* LineBotApiError is caught, any other exception of push_message leaves main
MainSend ==
    /\ pc = "send"
    /\ line_calls' = Append(line_calls, LineText(summary))
    /\ IF ~env["LINE_CHANNEL_ACCESS_TOKEN"] \/ ~env["LINE_USER_ID"]
       THEN /\ pc' = "append"
            /\ UNCHANGED <<pushed, aborted_in>>
       ELSE \E o \in {"ok", "LineBotApiError", "other_exception"} :
               /\ pushed' = IF o = "ok" THEN Append(pushed, LineText(summary)) ELSE pushed
               /\ pc' = IF o = "other_exception" THEN "aborted" ELSE "append"
               /\ aborted_in' = IF o = "other_exception" THEN "send" ELSE aborted_in
    /\ UNCHANGED <<env, news, summary, genai_calls, doc_calls, doc>>
    /\ UNCHANGED <<fetchVars, scrapeVars>>

\* append_to_google_doc(news, summary) and the final print (main.py:244-247,
\* 168-225): every exception is caught
MainAppend ==
    /\ pc = "append"
    /\ doc_calls' = Append(doc_calls, [news_list |-> news, summary |-> summary])
    /\ IF ~env["GCP_SERVICE_ACCOUNT_JSON"] \/ ~env["GOOGLE_DOC_ID"]
       THEN doc' = doc
       ELSE \E o \in {"ok", "exception"} :
               doc' = IF o = "ok" THEN Append(doc, DocSection(news, summary)) ELSE doc
    /\ pc' = "done"
    /\ UNCHANGED <<env, news, summary, genai_calls, line_calls, pushed, aborted_in>>
    /\ UNCHANGED <<fetchVars, scrapeVars>>

(***************************************************************************)
(* Specifications                                                          *)
(***************************************************************************)
FetchIdle ==
    /\ now = 0 /\ fi = 0 /\ feeds = <<>> /\ news_list = <<>>
    /\ unique_news = <<>> /\ ei = 0 /\ fpc = "idle"

ScrapeIdle ==
    /\ response = [kind |-> "none"] /\ soup = [elems |-> <<>>, paras |-> <<>>]
    /\ body_text = <<>> /\ matched = "" /\ fell_back = FALSE
    /\ extracted = <<>> /\ sresult = <<>> /\ spc = "idle"

MainIdle ==
    /\ env = [v \in ENV_NAMES |-> FALSE] /\ news = <<>> /\ summary = <<>>
    /\ genai_calls = <<>> /\ line_calls = <<>> /\ pushed = <<>>
    /\ doc_calls = <<>> /\ doc = <<>> /\ aborted_in = "" /\ pc = "idle"

InitFetch ==
    /\ now \in NowValues
    /\ fi = 1
    /\ feeds = <<>>
    /\ news_list = <<>>
    /\ unique_news = <<>>
    /\ ei = 0
    /\ fpc = "scan"
    /\ ScrapeIdle
    /\ MainIdle

NextFetch == FetchFeed \/ FetchDedup

SpecFetch == InitFetch /\ [][NextFetch]_vars

InitScrape ==
    /\ response = [kind |-> "none"]
    /\ soup = [elems |-> <<>>, paras |-> <<>>]
    /\ body_text = <<>>
    /\ matched = ""
    /\ fell_back = FALSE
    /\ extracted = <<>>
    /\ sresult = <<>>
    /\ spc = "get"
    /\ FetchIdle
    /\ MainIdle

NextScrape == ScrapeGet \/ ScrapeSelect \/ ScrapeFallback \/ ScrapeReturn

SpecScrape == InitScrape /\ [][NextScrape]_vars

Init ==
    /\ env \in [ENV_NAMES -> BOOLEAN]
    /\ news = <<>>
    /\ summary = <<>>
    /\ genai_calls = <<>>
    /\ line_calls = <<>>
    /\ pushed = <<>>
    /\ doc_calls = <<>>
    /\ doc = <<>>
    /\ aborted_in = ""
    /\ pc = "fetch"
    /\ FetchIdle
    /\ ScrapeIdle

Next == MainFetch \/ MainScrape \/ MainSummarize \/ MainSend \/ MainAppend

Spec == Init /\ [][Next]_vars

(***************************************************************************)
(* Properties of fetch_news (SpecFetch)                                    *)
(***************************************************************************)
\* the entries of feed k the inner loop has visited
VisitedOf(k) ==
    IF k < Len(feeds) THEN feeds[k].entries
    ELSE SubSeq(feeds[k].entries, 1, ei)

RECURSIVE VisitedUpTo(_)
VisitedUpTo(k) == IF k = 0 THEN <<>> ELSE VisitedUpTo(k - 1) \o VisitedOf(k)

\* every entry fetch_news has seen so far, in feed order then entry order
SeenEntries == VisitedUpTo(Len(feeds))

HasRecentTimestamp(entry) ==
    /\ entry.published # <<>>
    /\ entry.published[1] > now - ONE_DAY

\* C1: fetch_news returns a list and no exception escapes it, whatever
\* the feeds serve (entries without title or link included); a failing
\* feed contributes nothing and the feeds after it are still processed.
C1_NoExceptionEscapes ==
    /\ fpc # "raised"
    /\ fpc = "returned" => Len(feeds) = Len(RSS_FEEDS)
    /\ \A k \in 1..Len(feeds) : ~feeds[k].ok => feeds[k].entries = <<>>

\* C3: an entry seen by fetch_news contributes a record to the
\* pre-deduplication list if and only if it has a timestamp and the
\* timestamp is strictly after now minus 24 hours.
C3_RetainedIffRecent ==
    LET due == SelectSeq(SeenEntries, HasRecentTimestamp)
    IN  /\ Len(news_list) = Len(due)
        /\ \A k \in 1..Len(news_list) :
              /\ news_list[k].title = due[k].title
              /\ news_list[k].link = due[k].link

\* positions of news_list that hold the first occurrence of their link
FirstPositions ==
    { k \in 1..Len(news_list) : \A j \in 1..(k - 1) : news_list[j].link # news_list[k].link }

\* C4: the returned list has no two records with the same link; each
\* distinct link of the retained entries is kept exactly once, by its
\* first occurrence, and the kept records are in the order of those
\* first occurrences.
C4_FirstOccurrenceKept ==
    fpc = "returned" =>
        /\ \A i, j \in 1..Len(unique_news) :
              i # j => unique_news[i].link # unique_news[j].link
        /\ Len(unique_news) = Cardinality(FirstPositions)
        /\ \A m \in 1..Len(unique_news) :
              \E k \in FirstPositions :
                  /\ Cardinality({x \in FirstPositions : x < k}) = m - 1
                  /\ unique_news[m] = news_list[k]

\* a returned list from which a later duplicate, served by another feed
\* under another title, was dropped
C4_Witness ==
    /\ fpc = "returned"
    /\ Len(unique_news) = 2
    /\ \E i, j \in 1..Len(news_list) :
          /\ i < j
          /\ j < Len(news_list)
          /\ news_list[i].link = news_list[j].link
          /\ news_list[i].source # news_list[j].source
          /\ news_list[i].title # news_list[j].title

(***************************************************************************)
(* Properties of scrape_article_body (SpecScrape)                          *)
(***************************************************************************)
NoSelectorMatches(page) == \A k \in SelectorIndex : ~page.elems[k].found

StartsWith(t, prefix) ==
    /\ Len(t) >= Len(prefix)
    /\ SubSeq(t, 1, Len(prefix)) = prefix

\* C5: scrape_article_body never raises and returns a non-empty text
\* for every outcome of the request and of the parsing; for a page on
\* which no selector matches and no paragraph has 20 trimmed characters
\* or more it returns the no-body text.
C5_TotalAndNonEmpty ==
    /\ spc \in {"get", "select", "fallback", "limit"} => ENABLED NextScrape
    /\ spc = "returned" =>
          /\ sresult # <<>>
          /\ ( /\ response.kind = "page"
               /\ NoSelectorMatches(response.page)
               /\ \A k \in 1..Len(response.page.paras) :
                     Len(Strip(response.page.paras[k].text)) < MIN_PARAGRAPH )
             => sresult = NO_BODY_TEXT

\* a page with paragraphs, all of them short, and no container
C5_Witness ==
    /\ spc = "returned"
    /\ response.kind = "page"
    /\ NoSelectorMatches(response.page)
    /\ response.page.paras # <<>>
    /\ sresult = NO_BODY_TEXT

\* C6: whenever the GET fails, a response whose status is not 200
\* included, the error text is returned and no body is extracted from the
\* response.
C6_FailureGivesErrorText ==
    ( /\ spc = "returned"
      /\ \/ response.kind # "page"
         \/ response.status # 200 )
    => StartsWith(sresult, ERROR_PREFIX)

\* C9 as stated: a text longer than 2000 characters is returned as its
\* first 2000 characters and the marker, a text of 2000 characters or
\* fewer is returned unchanged, and no returned text is longer than 2000
\* characters plus the marker.
C9_AsStated ==
    spc = "returned" =>
        /\ response.kind = "page" =>
              /\ Len(extracted) > BODY_LIMIT =>
                    sresult = SubSeq(extracted, 1, BODY_LIMIT) \o OMIT_MARKER
              /\ Len(extracted) <= BODY_LIMIT => sresult = extracted
        /\ Len(sresult) <= BODY_LIMIT + Len(OMIT_MARKER)

\* C9: for every page that was parsed, an extracted text longer than
\* 2000 characters is returned as its first 2000 characters and the
\* marker, a non-empty text of 2000 characters or fewer is returned
\* unchanged, an empty text is replaced by the no-body text, and the
\* returned text is never longer than 2000 characters plus the marker.
C9_TruncatedAtLimit ==
    ( spc = "returned" /\ response.kind = "page" ) =>
        /\ Len(extracted) > BODY_LIMIT =>
              /\ Len(sresult) = BODY_LIMIT + Len(OMIT_MARKER)
              /\ \A i \in 1..BODY_LIMIT : sresult[i] = extracted[i]
              /\ \A i \in 1..Len(OMIT_MARKER) : sresult[BODY_LIMIT + i] = OMIT_MARKER[i]
        /\ ( extracted # <<>> /\ Len(extracted) <= BODY_LIMIT ) => sresult = extracted
        /\ extracted = <<>> => sresult = NO_BODY_TEXT
        /\ Len(sresult) <= BODY_LIMIT + Len(OMIT_MARKER)

\* a page whose text was cut, and whose last characters were lost
C9_Witness ==
    /\ spc = "returned"
    /\ response.kind = "page"
    /\ Len(extracted) > BODY_LIMIT
    /\ Len(sresult) = BODY_LIMIT + Len(OMIT_MARKER)

\* the first selector, in the order of SELECTORS, that finds an element
FirstMatch(page) ==
    IF NoSelectorMatches(page) THEN 0
    ELSE CHOOSE k \in SelectorIndex :
             /\ page.elems[k].found
             /\ \A j \in 1..(k - 1) : ~page.elems[j].found

\* C10 as stated: the first matching selector alone determines the
\* body, and the paragraph fallback runs only when no selector matched.
C10_AsStated ==
    ( spc \in {"limit", "returned"} /\ response.kind = "page" ) =>
        LET first == FirstMatch(soup)
        IN  /\ matched = IF first = 0 THEN "" ELSE SELECTORS[first]
            /\ first # 0 => extracted = ElementText(soup.elems[first])

\* C10: the selectors are tried in order and the first that finds an
\* element is the only one consulted; its text is the body unless that
\* text is empty; the paragraph fallback runs exactly when no selector
\* matched or the element of the first matching selector gave no text.
C10_FirstSelectorWins ==
    ( spc \in {"limit", "returned"} /\ response.kind = "page" ) =>
        LET first == FirstMatch(soup)
            own == IF first = 0 THEN <<>> ELSE ElementText(soup.elems[first])
        IN  /\ matched = IF first = 0 THEN "" ELSE SELECTORS[first]
            /\ fell_back <=> own = <<>>
            /\ ~fell_back => extracted = own
            /\ fell_back =>
                  extracted = JoinLines(SelectSeq(ParagraphTexts(soup.paras), LongEnough))

\* a container matched, gave no text, and the paragraphs of the page
\* became the body while a later container went unused
C10_Witness ==
    /\ spc = "returned"
    /\ matched # ""
    /\ fell_back
    /\ extracted # <<>>
    /\ \E k \in SelectorIndex : soup.elems[k].found /\ SELECTORS[k] # matched

(***************************************************************************)
(* Properties of main and summarize_news (Spec)                            *)
(***************************************************************************)
\* C2: whatever the messaging stage and the document stage do, the
\* document append is attempted after the messaging stage and the run
\* reaches its final step: once send_line_message has been called the run
\* is never cut short.
C2_DeliveryNeverAborts ==
    /\ ~(pc = "aborted" /\ line_calls # <<>>)
    /\ pc = "done" => doc_calls # <<>>

\* C7: the text passed to send_line_message is the digest when it has
\* at most 4900 characters and otherwise its first 4900 characters
\* followed by "..."; the summary passed to append_to_google_doc is the
\* digest itself.
C7_LineTextShaped ==
    /\ line_calls # <<>> =>
          LET sent == line_calls[1]
          IN  /\ Len(line_calls) = 1
              /\ Len(summary) <= LINE_LIMIT => sent = summary
              /\ Len(summary) > LINE_LIMIT =>
                    /\ Len(sent) = LINE_LIMIT + 3
                    /\ \A i \in 1..LINE_LIMIT : sent[i] = summary[i]
                    /\ \A i \in 1..3 : sent[LINE_LIMIT + i] = "."
    /\ doc_calls # <<>> =>
          /\ Len(doc_calls) = 1
          /\ doc_calls[1].summary = summary
    /\ pc \in {"append", "done"} => line_calls # <<>>
    /\ pc = "done" => doc_calls # <<>>

\* a digest over the limit went out cut to the channel and whole to the
\* document
C7_Witness ==
    /\ pc = "done"
    /\ Len(summary) > LINE_LIMIT
    /\ Len(line_calls[1]) = LINE_LIMIT + 3
    /\ doc # <<>>
    /\ doc[1].summary = summary

\* C8: for an empty record list summarize_news returns the no-news
\* text and sends nothing to the generative-text service, whether or not
\* the API key is set.
C8_EmptyListNoCall ==
    ( pc \in {"send", "append", "done"} /\ news = <<>> ) =>
        /\ summary = NO_NEWS_TEXT
        /\ genai_calls = <<>>

\* an empty list summarised without the API key
C8_Witness ==
    /\ pc = "send"
    /\ news = <<>>
    /\ ~env["GEMINI_API_KEY"]
    /\ summary = NO_NEWS_TEXT

====
